---- MODULE Spec2Model ----
(***************************************************************************)
(* EcoQuest meal tracking: the EcoMealsView of ecomeals_coding_sample.py   *)
(* and of airbnb_ecomeals_coding_sample.py.  The model covers the two pure *)
(* calculations (calculate_co2_reduced, calculate_ecomeals_points, with    *)
(* Python's float arithmetic modelled bit by bit), perform_create with its *)
(* swallow-all exception handler, and update_user_profile's read / add /   *)
(* save of the Profile row, run one call at a time and interleaved.        *)
(***************************************************************************)
EXTENDS Integers, Sequences, FiniteSets, TLC

VARIABLES
    db,     \* per view file, the database: the EcoMeals rows and the Profile rows
    calls,  \* the perform_create calls, in order of arrival: running and returned
    calc    \* an application of one of the two calculator methods

vars == <<db, calls, calc>>

(***************************************************************************)
(* Module constants.                                                       *)
(***************************************************************************)
POINTS_AWARDED_100GCO2 == 50

CO2E_PLANTBASED_BREAKFAST_GRAMS == 1100
CO2E_PLANTBASED_LUNCH_GRAMS == 980
CO2E_PLANTBASED_DINNER_GRAMS == 1100

CO2E_MEATBASED_BREAKFAST_GRAMS == 2600
CO2E_MEATBASED_LUNCH_GRAMS == 3800
CO2E_MEATBASED_DINNER_GRAMS == 4800

\* The literal 100 of `user_co2_reduced / 100 * POINTS_AWARDED_100GCO2`.
GramsPerAward == 100

\* Bits of the significand of a Python float (IEEE 754 binary64).
Precision == 53

(***************************************************************************)
(* Bounds of the model.                                                    *)
(***************************************************************************)
\* calculate_ecomeals_points is applied to every g in 0..MaxGrams.
MaxGrams == 4000

\* perform_create calls in flight or returned, when calls interleave.
MaxCalls == 2

\* Submissions handled one at a time.
MaxSubmissions == 2

(***************************************************************************)
(* Python float arithmetic.  A positive float is [mant, exp]: mant is the  *)
(* 53-bit significand, most significant bit first, and the value is        *)
(* mant * 2^exp.  Zero is the empty significand.  The significand is kept  *)
(* as a bit sequence because it does not fit a 32-bit integer.             *)
(***************************************************************************)
\* The number of bits of n: 0 for 0.
BitLen(n) ==
    CHOOSE l \in 0..31 : n < 2^l /\ (l = 0 \/ 2^(l - 1) <= n)

\* The binary digits of n, most significant first: <<>> for 0.
BitsOfNat(n) ==
    [i \in 1..BitLen(n) |-> (n \div 2^(BitLen(n) - i)) % 2]

\* The number a bit sequence of fewer than 31 bits spells.
RECURSIVE NatOfBits(_)
NatOfBits(bs) ==
    IF bs = <<>> THEN 0
    ELSE IF Len(bs) = 1 THEN bs[1]
    ELSE LET h == Len(bs) \div 2
         IN  NatOfBits(SubSeq(bs, 1, h)) * 2^(Len(bs) - h)
             + NatOfBits(SubSeq(bs, h + 1, Len(bs)))

FloatZero == [mant |-> <<>>, exp |-> 0]

\* bs + 1, one bit longer when the carry runs out of the top.
IncBits(bs) ==
    IF \A i \in 1..Len(bs) : bs[i] = 1
    THEN [i \in 1..Len(bs) + 1 |-> IF i = 1 THEN 1 ELSE 0]
    ELSE LET p == CHOOSE i \in 1..Len(bs) :
                      bs[i] = 0 /\ \A j \in i + 1..Len(bs) : bs[j] = 1
         IN  [i \in 1..Len(bs) |-> IF i < p THEN bs[i] ELSE IF i = p THEN 1 ELSE 0]

\* Round the exact value (bs * 2^exp, plus something in (0, 2^exp) when sticky)
\* to Precision bits, to nearest, ties to even.  bs has no leading zero and at
\* least Precision bits.
RoundNearestEven(bs, exp, sticky) ==
    LET keep  == SubSeq(bs, 1, Precision)
        rest  == SubSeq(bs, Precision + 1, Len(bs))
        half  == rest # <<>> /\ rest[1] = 1
        below == sticky \/ \E i \in 2..Len(rest) : rest[i] = 1
        up    == half /\ (below \/ keep[Precision] = 1)
        inc   == IncBits(keep)
    IN  IF ~up THEN [mant |-> keep, exp |-> exp + Len(rest)]
        ELSE IF Len(inc) = Precision
             THEN [mant |-> inc, exp |-> exp + Len(rest)]
             ELSE [mant |-> SubSeq(inc, 1, Precision), exp |-> exp + Len(rest) + 1]

\* 2^k mod b, for b < 2^10, without a number above 2^31.
Pow2Mod(k, b) ==
    ((((2^20 % b)^(k \div 20)) % b) * (2^(k % 20) % b)) % b

\* The remainder of long division after i fraction bits of r / b (r < b < 2^10).
FracRem(r, b, i) == (r * Pow2Mod(i, b)) % b

\* The i-th fraction bit of r / b.
FracBit(r, b, i) == (2 * FracRem(r, b, i - 1)) \div b

\* int / int: the correctly rounded quotient, for a >= 0 and 0 < b < 2^10.
\* The quotient's first Precision + 1 significant bits are its integer part
\* followed by fraction bits (past the leading zeros when a < b); what long
\* division leaves after them is the sticky bit.
TrueDivide(a, b) ==
    IF a = 0 THEN FloatZero
    ELSE LET int  == BitsOfNat(a \div b)
             r    == a % b
             skip == IF int # <<>> THEN 0
                     ELSE (CHOOSE i \in 1..31 :
                              FracBit(r, b, i) = 1
                              /\ \A j \in 1..i - 1 : FracBit(r, b, j) = 0) - 1
             n    == skip + Precision + 1 - Len(int)
             bits == int \o [i \in 1..n - skip |-> FracBit(r, b, skip + i)]
         IN  RoundNearestEven(bits, 0 - n, FracRem(r, b, n) # 0)

\* bs * c + carry for a small c, twenty bits at a time from the low end.
RECURSIVE MulBits(_, _, _)
MulBits(bs, c, carry) ==
    IF Len(bs) <= 20 THEN BitsOfNat(NatOfBits(bs) * c + carry)
    ELSE LET t == NatOfBits(SubSeq(bs, Len(bs) - 19, Len(bs))) * c + carry
         IN  MulBits(SubSeq(bs, 1, Len(bs) - 20), c, t \div 2^20)
             \o [i \in 1..20 |-> (t \div 2^(20 - i)) % 2]

\* float * int, for an int that converts to a float exactly.
FloatMul(x, n) ==
    IF x.mant = <<>> \/ n = 0 THEN FloatZero
    ELSE RoundNearestEven(MulBits(x.mant, n, 0), x.exp, FALSE)

\* math.floor of a float that is not negative and below 2^30.
MathFloor(x) ==
    IF x.mant = <<>> THEN 0
    ELSE IF x.exp >= 0 THEN NatOfBits(x.mant) * 2^x.exp
    ELSE IF Precision + x.exp <= 0 THEN 0
    ELSE NatOfBits(SubSeq(x.mant, 1, Precision + x.exp))

(***************************************************************************)
(* The calculator.                                                         *)
(***************************************************************************)
\* The values a key of request.data takes: Python's booleans (a JSON body) and
\* the strings of a form body.
RawValues == {"True", "False", "'true'", "'false'"}

\* bool(v), as an `if` evaluates it: every non-empty string is true.
Truthy(v) == v \in {"True", "'true'", "'false'"}

\* Three independent `if`s that add up, in place of if / elif / elif.
calculate_co2_reduced_summed(user_ecomeals_input) ==
    LET has(k) == k \in DOMAIN user_ecomeals_input
        delta(k, d) == IF Truthy(user_ecomeals_input[k]) THEN d ELSE 0
    IN  IF ~(has("eco_breakfast") /\ has("eco_lunch") /\ has("eco_dinner"))
        THEN [exc |-> "KeyError", ret |-> 0]
        ELSE [exc |-> "none",
              ret |-> delta("eco_breakfast", CO2E_MEATBASED_BREAKFAST_GRAMS
                                             - CO2E_PLANTBASED_BREAKFAST_GRAMS)
                      + delta("eco_lunch", CO2E_MEATBASED_LUNCH_GRAMS
                                           - CO2E_PLANTBASED_LUNCH_GRAMS)
                      + delta("eco_dinner", CO2E_MEATBASED_DINNER_GRAMS
                                            - CO2E_PLANTBASED_DINNER_GRAMS)]

\* calculate_co2_reduced: [exc, ret]; reading a key the input lacks raises.
calculate_co2_reduced(user_ecomeals_input) ==
    LET has(k) == k \in DOMAIN user_ecomeals_input
        KeyError == [exc |-> "KeyError", ret |-> 0]
        Return(v) == [exc |-> "none", ret |-> v]
    IN  IF ~has("eco_breakfast") THEN KeyError
        ELSE IF Truthy(user_ecomeals_input["eco_breakfast"])
        THEN Return(CO2E_MEATBASED_BREAKFAST_GRAMS - CO2E_PLANTBASED_BREAKFAST_GRAMS)
        ELSE IF ~has("eco_lunch") THEN KeyError
        ELSE IF Truthy(user_ecomeals_input["eco_lunch"])
        THEN Return(CO2E_MEATBASED_LUNCH_GRAMS - CO2E_PLANTBASED_LUNCH_GRAMS)
        ELSE IF ~has("eco_dinner") THEN KeyError
        ELSE IF Truthy(user_ecomeals_input["eco_dinner"])
        THEN Return(CO2E_MEATBASED_DINNER_GRAMS - CO2E_PLANTBASED_DINNER_GRAMS)
        ELSE Return(0)

\* user_co2_reduced // 100 * 50: whole hundreds only.
points_floor_division(user_co2_reduced) ==
    (user_co2_reduced \div GramsPerAward) * POINTS_AWARDED_100GCO2

\* math.ceil in place of math.floor.
points_ceil(user_co2_reduced) ==
    LET x == FloatMul(TrueDivide(user_co2_reduced, GramsPerAward),
                      POINTS_AWARDED_100GCO2)
    IN  IF x.mant = <<>> \/ x.exp >= 0
           \/ \A i \in Precision + x.exp + 1..Precision : i >= 1 => x.mant[i] = 0
        THEN MathFloor(x) ELSE MathFloor(x) + 1

\* user_co2_reduced % 100 * 50: the remainder in place of the quotient.
points_modulo(user_co2_reduced) ==
    (user_co2_reduced % GramsPerAward) * POINTS_AWARDED_100GCO2

\* calculate_ecomeals_points: math.floor(user_co2_reduced / 100 * 50).
calculate_ecomeals_points(user_co2_reduced) ==
    MathFloor(FloatMul(TrueDivide(user_co2_reduced, GramsPerAward),
                       POINTS_AWARDED_100GCO2))

\* The method's result for every input of the model, computed once: the steps
\* of perform_create look their result up here.
PointsTable == [g \in 0..MaxGrams |-> calculate_ecomeals_points(g)]

(***************************************************************************)
(* The database and the requests.                                          *)
(***************************************************************************)
\* The two view modules.
Files == {"ecomeals_coding_sample", "airbnb_ecomeals_coding_sample"}

\* Whether the module imports Profile, the name update_user_profile looks up.
ImportsProfile(file) == file = "ecomeals_coding_sample"

Users == {"alice", "bob", "carol"}

\* The Profile rows before any submission: carol has none.
InitialProfiles ==
    [u \in {"alice", "bob"} |->
        IF u = "alice" THEN [total_co2e_reduced |-> 0, total_points |-> 0]
        ELSE [total_co2e_reduced |-> 1500, total_points |-> 750]]

InitialDb == [meals |-> <<>>, profiles |-> InitialProfiles]

\* Every request.data over the three keys: a key is absent or holds a raw value.
AllPayloads ==
    UNION {[ks -> RawValues] : ks \in SUBSET {"eco_breakfast", "eco_lunch", "eco_dinner"}}

\* The request bodies submitted to the view.
Payloads ==
    { [eco_breakfast |-> "True", eco_lunch |-> "False", eco_dinner |-> "False"],
      [eco_breakfast |-> "False", eco_lunch |-> "True", eco_dinner |-> "True"],
      [eco_breakfast |-> "False", eco_lunch |-> "False", eco_dinner |-> "True"],
      [eco_breakfast |-> "'false'", eco_lunch |-> "'true'", eco_dinner |-> "'false'"],
      [eco_breakfast |-> "False", eco_dinner |-> "True"] }

\* The request bodies submitted while other calls are running.
InterleavedPayloads ==
    { [eco_breakfast |-> "True", eco_lunch |-> "False", eco_dinner |-> "False"],
      [eco_breakfast |-> "False", eco_lunch |-> "False", eco_dinner |-> "True"],
      [eco_breakfast |-> "False", eco_dinner |-> "True"] }

\* The serializer's BooleanField: the stored boolean of a raw value; a flag the
\* body lacks is stored as false.
ToInternalValue(data, k) ==
    IF k \in DOMAIN data /\ data[k] \in {"True", "'true'"} THEN "True" ELSE "False"

\* serializer.validated_data.
ValidatedData(user, data) ==
    [user |-> user,
     eco_breakfast |-> ToInternalValue(data, "eco_breakfast"),
     eco_lunch |-> ToInternalValue(data, "eco_lunch"),
     eco_dinner |-> ToInternalValue(data, "eco_dinner")]

\* The model's default of co2_reduced and of ecomeals_points on a new row.
FieldDefault == 0

\* The frame of a perform_create call as it is entered.
NewFrame(file, user, data) ==
    [file |-> file, user |-> user, data |-> data,
     pc |-> "serializer_save",
     instance |-> 0, co2_reduced |-> 0, ecomeals_points |-> 0,
     profile |-> [total_co2e_reduced |-> 0, total_points |-> 0],
     caught |-> "none", printed |-> 0, propagated |-> "none", ret |-> "pending"]

\* A call that has returned or raised: its locals and its request are gone;
\* what is kept is how it ended and which row it inserted (0: none).
Ended(fr, caught, printed, propagated, ret) ==
    [NewFrame(fr.file, fr.user, <<>>) EXCEPT
        !.pc = "returned", !.instance = fr.instance, !.caught = caught,
        !.printed = printed, !.propagated = propagated, !.ret = ret]

\* The exceptions the steps raise; all are subclasses of Exception.
Exceptions == {"KeyError", "NameError", "DoesNotExist", "DatabaseError"}

\* `except KeyError`: a handler that catches lookups only.
ExceptKeyErrorOnly(fr, exc) ==
    IF exc = "KeyError" THEN Ended(fr, exc, 1, "none", "None")
    ELSE Ended(fr, "none", 0, exc, "raised")

\* `except Exception as e: print(...)`: one line printed, the call returns None.
ExceptHandler(fr, exc) ==
    IF exc \in Exceptions THEN Ended(fr, exc, 1, "none", "None")
    ELSE Ended(fr, "none", 0, exc, "raised")

(***************************************************************************)
(* The steps of perform_create.  A step takes [fr, d], the call's frame    *)
(* and the database of its view, and gives them back as the step leaves    *)
(* them; exc is the exception the step's database call (or, in the first   *)
(* step, a read of validated_data) raises, or "none".                      *)
(***************************************************************************)
\* validated_data reads and serializer.save(...): the row is inserted.
SerializerSave(s, exc) ==
    IF exc # "none" THEN [s EXCEPT !.fr = ExceptHandler(s.fr, exc)]
    ELSE LET v == ValidatedData(s.fr.user, s.fr.data)
             row == [user |-> v.user, eco_breakfast |-> v.eco_breakfast,
                     eco_lunch |-> v.eco_lunch, eco_dinner |-> v.eco_dinner,
                     co2_reduced |-> FieldDefault, ecomeals_points |-> FieldDefault,
                     saves |-> 1]
         IN  [fr |-> [s.fr EXCEPT !.pc = "calculate", !.instance = Len(s.d.meals) + 1],
              d  |-> [s.d EXCEPT !.meals = Append(@, row)]]

\* co2_reduced and ecomeals_points, from request.data.
Calculate(s) ==
    LET r == calculate_co2_reduced(s.fr.data)
    IN  IF r.exc # "none" THEN [s EXCEPT !.fr = ExceptHandler(s.fr, r.exc)]
        ELSE [s EXCEPT !.fr.pc = "instance_save",
                       !.fr.co2_reduced = r.ret,
                       !.fr.ecomeals_points = PointsTable[r.ret]]

\* eco_meals_instance.save(): the two results are written to the call's row.
InstanceSave(s, exc) ==
    IF exc # "none" THEN [s EXCEPT !.fr = ExceptHandler(s.fr, exc)]
    ELSE [s EXCEPT !.fr.pc = "profile_get",
                   !.d.meals[s.fr.instance].co2_reduced = s.fr.co2_reduced,
                   !.d.meals[s.fr.instance].ecomeals_points = s.fr.ecomeals_points,
                   !.d.meals[s.fr.instance].saves = 2]

\* update_user_profile: profile = Profile.objects.get(username=user).
ProfileGet(s, exc) ==
    IF ~ImportsProfile(s.fr.file) THEN [s EXCEPT !.fr = ExceptHandler(s.fr, "NameError")]
    ELSE IF s.fr.user \notin DOMAIN s.d.profiles
    THEN [s EXCEPT !.fr = ExceptHandler(s.fr, "DoesNotExist")]
    ELSE IF exc # "none" THEN [s EXCEPT !.fr = ExceptHandler(s.fr, exc)]
    ELSE [s EXCEPT !.fr.pc = "profile_add", !.fr.profile = s.d.profiles[s.fr.user]]

\* `profile.total_points = ...` in place of `+=`.
ProfileAssign(s) ==
    [s EXCEPT !.fr.pc = "profile_save",
              !.fr.profile.total_co2e_reduced = @ + s.fr.co2_reduced,
              !.fr.profile.total_points = s.fr.ecomeals_points]

\* update_user_profile: the two += on the object read.
ProfileAdd(s) ==
    [s EXCEPT !.fr.pc = "profile_save",
              !.fr.profile.total_co2e_reduced = @ + s.fr.co2_reduced,
              !.fr.profile.total_points = @ + s.fr.ecomeals_points]

\* update_user_profile: profile.save() writes the object's fields; the call returns.
ProfileSave(s, exc) ==
    IF exc # "none" THEN [s EXCEPT !.fr = ExceptHandler(s.fr, exc)]
    ELSE [fr |-> Ended(s.fr, "none", 0, "none", "None"),
          d  |-> [s.d EXCEPT !.profiles[s.fr.user] = s.fr.profile]]

\* What a step can be made to raise from outside: a key validated_data lacks,
\* a failing database call.
Raisable(pc) ==
    CASE pc = "serializer_save" -> {"KeyError", "DatabaseError"}
      [] pc \in {"instance_save", "profile_get", "profile_save"} -> {"DatabaseError"}
      [] OTHER -> {}

\* One exception at one step, or none at all.
Faults ==
    {[at |-> "none", exc |-> "none"]}
    \cup UNION {{[at |-> pc, exc |-> e] : e \in Raisable(pc)} :
                  pc \in {"serializer_save", "instance_save", "profile_get",
                          "profile_save"}}

\* The step a frame is at.
Step(s, exc) ==
    CASE s.fr.pc = "serializer_save" -> SerializerSave(s, exc)
      [] s.fr.pc = "calculate"       -> Calculate(s)
      [] s.fr.pc = "instance_save"   -> InstanceSave(s, exc)
      [] s.fr.pc = "profile_get"     -> ProfileGet(s, exc)
      [] s.fr.pc = "profile_add"     -> ProfileAdd(s)
      [] s.fr.pc = "profile_save"    -> ProfileSave(s, exc)
      [] OTHER                       -> s

\* perform_create from entry to return with no other call in between, under
\* a fault.
RECURSIVE RunToReturn(_, _)
RunToReturn(s, fault) ==
    IF s.fr.pc = "returned" THEN s
    ELSE RunToReturn(Step(s, IF s.fr.pc = fault.at THEN fault.exc ELSE "none"), fault)

perform_create(file, d, user, data, fault) ==
    RunToReturn([fr |-> NewFrame(file, user, data), d |-> d], fault)

(***************************************************************************)
(* Calls that interleave: each step of a call is one action, and the       *)
(* calls of a deployment (one view module) share its database.             *)
(***************************************************************************)
CalcIdle == [fn |-> "none", arg |-> 0, selection |-> <<>>,
             returned |-> FALSE, exc |-> "none", ret |-> 0]

Init ==
    /\ db = [f \in Files |-> InitialDb]
    /\ calls = <<>>
    /\ calc = CalcIdle

\* A POST arrives and perform_create is entered.
Begin(file, user, data) ==
    /\ Len(calls) < MaxCalls
    /\ calls # <<>> => file = calls[1].file
    /\ calls' = Append(calls, NewFrame(file, user, data))
    /\ UNCHANGED <<db, calc>>

\* Call c leaves a step with frame and database s.
Leave(c, s) ==
    /\ calls' = [calls EXCEPT ![c] = s.fr]
    /\ db' = [db EXCEPT ![calls[c].file] = s.d]
    /\ UNCHANGED calc

At(c) == [fr |-> calls[c], d |-> db[calls[c].file]]

DoSerializerSave(c) ==
    /\ calls[c].pc = "serializer_save"
    /\ \E exc \in {"none"} \cup Raisable("serializer_save") :
          Leave(c, SerializerSave(At(c), exc))

DoCalculate(c) ==
    /\ calls[c].pc = "calculate"
    /\ Leave(c, Calculate(At(c)))

DoInstanceSave(c) ==
    /\ calls[c].pc = "instance_save"
    /\ \E exc \in {"none"} \cup Raisable("instance_save") :
          Leave(c, InstanceSave(At(c), exc))

DoProfileGet(c) ==
    /\ calls[c].pc = "profile_get"
    /\ \E exc \in {"none"} \cup Raisable("profile_get") :
          Leave(c, ProfileGet(At(c), exc))

DoProfileAdd(c) ==
    /\ calls[c].pc = "profile_add"
    /\ Leave(c, ProfileAdd(At(c)))

DoProfileSave(c) ==
    /\ calls[c].pc = "profile_save"
    /\ \E exc \in {"none"} \cup Raisable("profile_save") :
          Leave(c, ProfileSave(At(c), exc))

Next ==
    \/ \E file \in Files, user \in Users, data \in InterleavedPayloads :
          Begin(file, user, data)
    \/ \E c \in 1..Len(calls) : DoSerializerSave(c)
    \/ \E c \in 1..Len(calls) : DoCalculate(c)
    \/ \E c \in 1..Len(calls) : DoInstanceSave(c)
    \/ \E c \in 1..Len(calls) : DoProfileGet(c)
    \/ \E c \in 1..Len(calls) : DoProfileAdd(c)
    \/ \E c \in 1..Len(calls) : DoProfileSave(c)

Spec == Init /\ [][Next]_vars

(***************************************************************************)
(* Calls one at a time: a submission runs perform_create to its return,    *)
(* and the same submission is given to both view modules, each on its own  *)
(* database.                                                               *)
(***************************************************************************)
Submit(user, data, fault) ==
    LET a == perform_create("ecomeals_coding_sample",
                            db["ecomeals_coding_sample"], user, data, fault)
        b == perform_create("airbnb_ecomeals_coding_sample",
                            db["airbnb_ecomeals_coding_sample"], user, data, fault)
    IN  /\ Len(calls) < 2 * MaxSubmissions
        /\ db' = [f \in Files |-> IF f = "ecomeals_coding_sample" THEN a.d ELSE b.d]
        /\ calls' = calls \o <<a.fr, b.fr>>
        /\ UNCHANGED calc

SeqNext ==
    \E user \in Users, data \in Payloads, fault \in Faults : Submit(user, data, fault)

SeqSpec == Init /\ [][SeqNext]_vars

(***************************************************************************)
(* The calculator on its own: an input is drawn, the method is applied;    *)
(* perform_create hands the first method's result to the second.           *)
(***************************************************************************)
CalcInit ==
    /\ db = [f \in Files |-> InitialDb]
    /\ calls = <<>>
    /\ calc \in {[CalcIdle EXCEPT !.fn = "calculate_co2_reduced", !.arg = p] :
                    p \in AllPayloads}
           \cup {[CalcIdle EXCEPT !.fn = "calculate_ecomeals_points", !.arg = g] :
                    g \in 0..MaxGrams}

ApplyCo2Reduced ==
    /\ calc.fn = "calculate_co2_reduced" /\ ~calc.returned
    /\ LET r == calculate_co2_reduced(calc.arg)
       IN  calc' = [calc EXCEPT !.returned = TRUE, !.exc = r.exc, !.ret = r.ret]
    /\ UNCHANGED <<db, calls>>

PassToPoints ==
    /\ calc.fn = "calculate_co2_reduced" /\ calc.returned /\ calc.exc = "none"
    /\ calc' = [CalcIdle EXCEPT !.fn = "calculate_ecomeals_points",
                                !.arg = calc.ret, !.selection = calc.arg]
    /\ UNCHANGED <<db, calls>>

ApplyPoints ==
    /\ calc.fn = "calculate_ecomeals_points" /\ ~calc.returned
    /\ calc' = [calc EXCEPT !.returned = TRUE,
                            !.ret = calculate_ecomeals_points(calc.arg)]
    /\ UNCHANGED <<db, calls>>

CalcNext == ApplyCo2Reduced \/ PassToPoints \/ ApplyPoints

CalcSpec == CalcInit /\ [][CalcNext]_vars

(***************************************************************************)
(* Properties of the calculator, under CalcSpec.                           *)
(***************************************************************************)
BooleanSelections ==
    [{"eco_breakfast", "eco_lunch", "eco_dinner"} -> {"True", "False"}]

Co2Returned == calc.fn = "calculate_co2_reduced" /\ calc.returned

PointsReturned == calc.fn = "calculate_ecomeals_points" /\ calc.returned

\* C1: for every combination of three boolean flags calculate_co2_reduced
\* returns, without raising, the delta of the first true flag in the order
\* breakfast, lunch, dinner (1500, 2820, 3700), and 0 when none is true; the
\* deltas of several true flags are never added up.
C1_FirstMatchPriority ==
    (Co2Returned /\ calc.arg \in BooleanSelections) =>
        /\ calc.exc = "none"
        /\ calc.ret = IF calc.arg["eco_breakfast"] = "True" THEN 1500
                      ELSE IF calc.arg["eco_lunch"] = "True" THEN 2820
                      ELSE IF calc.arg["eco_dinner"] = "True" THEN 3700
                      ELSE 0

\* All three flags true: breakfast wins.
C1_Witness ==
    /\ Co2Returned
    /\ calc.arg = [k \in {"eco_breakfast", "eco_lunch", "eco_dinner"} |-> "True"]
    /\ calc.ret = 1500

\* C2: calculate_ecomeals_points gives 0 -> 0, 1500 -> 750, 2820 -> 1410 and
\* 3700 -> 1850, so the results perform_create derives from a request body are
\* one of (0, 0), (1500, 750), (2820, 1410), (3700, 1850).
C2_PointsOfEachDelta ==
    PointsReturned =>
        /\ calc.arg = 0 => calc.ret = 0
        /\ calc.arg = 1500 => calc.ret = 750
        /\ calc.arg = 2820 => calc.ret = 1410
        /\ calc.arg = 3700 => calc.ret = 1850
        /\ calc.selection # <<>> =>
              <<calc.arg, calc.ret>> \in
                  {<<0, 0>>, <<1500, 750>>, <<2820, 1410>>, <<3700, 1850>>}

\* The lunch delta, derived from a selection, has earned 1410 points.
C2_Witness ==
    /\ PointsReturned
    /\ calc.selection \in BooleanSelections
    /\ calc.arg = 2820
    /\ calc.ret = 1410

C4_Monotone ==
    PointsReturned =>
        \A a \in 0..calc.arg : 0 <= PointsTable[a] /\ PointsTable[a] <= calc.ret

\* 58 g after 57 g: the rounding costs a point and the result stays at 28.
C4_Witness ==
    /\ PointsReturned
    /\ calc.arg = 58
    /\ calc.ret = 28
    /\ PointsTable[57] = 28
    /\ PointsTable[56] = 28

(***************************************************************************)
(* Properties of perform_create.                                           *)
(***************************************************************************)
\* The sums of co2_reduced and of ecomeals_points over the rows of user u.
RECURSIVE RowTotals(_, _)
RowTotals(meals, u) ==
    IF meals = <<>> THEN [total_co2e_reduced |-> 0, total_points |-> 0]
    ELSE LET rest == RowTotals(SubSeq(meals, 1, Len(meals) - 1), u)
             row  == meals[Len(meals)]
         IN  IF row.user # u THEN rest
             ELSE [total_co2e_reduced |-> rest.total_co2e_reduced + row.co2_reduced,
                   total_points |-> rest.total_points + row.ecomeals_points]

\* The profile of u holds its initial totals plus the sums over u's rows.
TotalsAddUp(file, u) ==
    LET sum == RowTotals(db[file].meals, u)
    IN  db[file].profiles[u] =
            [total_co2e_reduced |->
                 InitialProfiles[u].total_co2e_reduced + sum.total_co2e_reduced,
             total_points |-> InitialProfiles[u].total_points + sum.total_points]

\* The users with a call to the view of `file` in which a step failed.
FailedUsers(file) ==
    {calls[i].user : i \in {j \in 1..Len(calls) :
                              calls[j].file = file /\ calls[j].caught # "none"}}

AllReturned == \A i \in 1..Len(calls) : calls[i].pc = "returned"

\* C5: in ecomeals_coding_sample.py, after any sequence of perform_create
\* calls run one at a time, the profile of every user no call of whom failed
\* holds its initial totals plus the sums of co2_reduced and ecomeals_points
\* over that user's rows; the submissions of other users (failed or not)
\* leave it unchanged, since they add no row of that user.
C5_TotalsAreSums ==
    \A u \in DOMAIN db["ecomeals_coding_sample"].profiles :
        u \notin FailedUsers("ecomeals_coding_sample") =>
            TotalsAddUp("ecomeals_coding_sample", u)

\* alice has submitted twice, bob never: her totals grew by both deltas.
C5_Witness ==
    /\ Len(db["ecomeals_coding_sample"].meals) = 2
    /\ \A i \in 1..2 : /\ db["ecomeals_coding_sample"].meals[i].user = "alice"
                       /\ db["ecomeals_coding_sample"].meals[i].saves = 2
    /\ FailedUsers("ecomeals_coding_sample") = {}
    /\ db["ecomeals_coding_sample"].profiles["alice"] =
           [total_co2e_reduced |-> 1500 + 3700, total_points |-> 750 + 1850]
    /\ db["ecomeals_coding_sample"].profiles["bob"] = InitialProfiles["bob"]

\* C6: when calls for the same user interleave, no update is lost: once all
\* calls have returned, none having failed, the totals of every profile are the
\* initial ones plus the deltas of all the calls.
C6_NoLostUpdate ==
    (AllReturned /\ \A i \in 1..Len(calls) : calls[i].caught = "none") =>
        \A f \in Files : \A u \in DOMAIN db[f].profiles : TotalsAddUp(f, u)

\* C7: perform_create never lets an exception out: whichever step raises, the
\* handler catches it, prints one line, and the call returns None, as a call
\* in which nothing failed does.
C7_NeverPropagates ==
    \A i \in 1..Len(calls) :
        /\ calls[i].propagated = "none"
        /\ calls[i].ret # "raised"
        /\ calls[i].pc = "returned" =>
              /\ calls[i].ret = "None"
              /\ calls[i].printed = IF calls[i].caught = "none" THEN 0 ELSE 1

\* Of two calls that returned None, one failed on the profile lookup and one
\* did not fail.
C7_Witness ==
    \E i, j \in 1..Len(calls) :
        /\ calls[i].pc = "returned" /\ calls[i].caught = "DoesNotExist"
        /\ calls[j].pc = "returned" /\ calls[j].caught = "none"
        /\ calls[i].ret = "None" /\ calls[j].ret = "None"

\* C8: a submission in which a step raised leaves nothing behind: no row of it
\* is stored.
C8_FailedLeavesNothing ==
    \A i \in 1..Len(calls) :
        (calls[i].pc = "returned" /\ calls[i].caught # "none") =>
            calls[i].instance = 0

\* C9: every row whose results have been saved is self-consistent: its
\* co2_reduced is calculate_co2_reduced of the three flags stored on it, and
\* its ecomeals_points is calculate_ecomeals_points of its co2_reduced.
C9_RowsSelfConsistent ==
    \A f \in Files : \A i \in 1..Len(db[f].meals) :
        LET row == db[f].meals[i]
        IN  row.saves = 2 =>
              /\ row.co2_reduced =
                     calculate_co2_reduced(
                         [eco_breakfast |-> row.eco_breakfast,
                          eco_lunch |-> row.eco_lunch,
                          eco_dinner |-> row.eco_dinner]).ret
              /\ row.ecomeals_points = PointsTable[row.co2_reduced]

\* C10: given the same submissions, the view of either module leaves the same
\* rows and the same profile totals.
C10_ModulesAgree ==
    db["airbnb_ecomeals_coding_sample"] = db["ecomeals_coding_sample"]

====
